---- MODULE Spec2Model ----
(***************************************************************************)
(* Model of the scrape queue and retry-orchestration loop of               *)
(* master_scraper.py (class MasterScraper).                                *)
(*                                                                         *)
(* Disk state: the source list (scholarships.csv), the queue file          *)
(* (scholarship_queue.csv) and the Record Store (the *.json files of       *)
(* output_dir).  Process state: the position of run() and its locals.      *)
(* Strings are sequences of one-character strings so that                  *)
(* generate_filename can be computed character by character.               *)
(***************************************************************************)
EXTENDS Integers, Sequences, FiniteSets, TLC

(* ---------------------------------------------------------------- bounds *)
MaxEntries == 2        \* longest source list
MaxRetriesBound == 2   \* max_retries is configured in 1..MaxRetriesBound
MaxRuns == 1           \* restarts of run() (after a kill or a finished run)
MaxExternal == 1       \* files another writer may drop into the Record Store

(* cap of the counters processed and failed: one more than a run can reach *)
ItemCap == MaxEntries + 1
MaxLongEntries == 3      \* rows of a queue file read in more than one chunk

(* The text reader takes the file in chunks of io.DEFAULT_BUFFER_SIZE     *)
(* bytes; a queue of some ninety real rows is longer than one chunk.  The *)
(* rows of the model are a dozen characters long, so the chunk is scaled  *)
(* to files of two or three such rows.                                    *)
MinChunk == 40
MaxChunk == 64
ChunkSizes == MinChunk..MaxChunk

(* the longest name the key derivation is tried on exhaustively *)
MaxNameLen == 3

(* the list page: the links it can hold in all, and the links one scroll *)
(* can add                                                               *)
MaxLinks == 101
MaxBatch == 1

(* ------------------------------------------------------ program constants *)
FilenameLimit == 100   \* filename[:100]
MaxScrolls == 100      \* list scraper: max_scrolls = 100
StallLimit == 3        \* list scraper: if scroll_attempts >= 3

(* ------------------------------------------------------------ characters *)
WordChars == {"a", "b", "c", "x", "_",             \* \w
              "F", "T", "l", "r", "s", "u", "e"}
SpaceChars == {" ", "\t"}             \* \s
KeptChars == WordChars \cup SpaceChars \cup {"-"}

Ext == <<".json">>

(* re.sub(r'[^\w\s-]', '', name) *)
Sanitize(name) == SelectSeq(name, LAMBDA c : c \in KeptChars)

RECURSIVE LStrip(_)
LStrip(s) == IF s # <<>> /\ Head(s) \in SpaceChars THEN LStrip(Tail(s)) ELSE s

RECURSIVE RStrip(_)
RStrip(s) ==
    IF s # <<>> /\ s[Len(s)] \in SpaceChars
    THEN RStrip(SubSeq(s, 1, Len(s) - 1))
    ELSE s

(* str.strip() *)
Strip(s) == RStrip(LStrip(s))

(* str.replace(' ', '_') *)
ReplaceSpaces(s) == [i \in 1..Len(s) |-> IF s[i] = " " THEN "_" ELSE s[i]]

(* filename[:100] *)
Truncate(s) == IF Len(s) > FilenameLimit THEN SubSeq(s, 1, FilenameLimit) ELSE s

(* url.split('/')[-1] *)
RECURSIVE LastSegment(_)
LastSegment(url) ==
    IF url = <<>> THEN <<>>
    ELSE IF url[Len(url)] = "/" THEN <<>>
    ELSE Append(LastSegment(SubSeq(url, 1, Len(url) - 1)), url[Len(url)])

(* the slug fallback of generate_filename *)
UrlSlug(url) == LastSegment(url) \o Ext

(* generate_filename *)
GenerateFilename(scholarship_name, url) ==
    IF scholarship_name # <<>>
    THEN LET filename == Truncate(ReplaceSpaces(Strip(Sanitize(scholarship_name))))
         IN  IF filename # <<>> THEN filename \o Ext ELSE UrlSlug(url)
    ELSE UrlSlug(url)

(* a mutant of is_scraped: the probe looks in the wrong directory *)
IsScrapedNever(scholarship_name, url, files) == FALSE

(* is_scraped: the file named by the key exists in output_dir *)
IsScraped(scholarship_name, url, files) ==
    GenerateFilename(scholarship_name, url) \in files

(* ------------------------------------------------------------- the inputs *)
UrlA == <<"x", "/", "a">>
UrlB == <<"x", "/", "b">>
UrlC == <<"x", "/", "c">>

Row(n, u) == [name |-> n, url |-> u]

(* rows a source list is drawn from: names with the same key ("a", "a!"),  *)
(* an empty name that falls back to the slug "b" (the key of " b" too),    *)
(* and two rows sharing a url                                              *)
SourceRows ==
    { Row(<<"a">>, UrlA),
      Row(<<"a", "!">>, UrlB),
      Row(<<>>, UrlB),
      Row(<<" ", "b">>, UrlC) }

RECURSIVE SeqsUpTo(_, _)
SeqsUpTo(S, n) ==
    IF n = 0 THEN {<<>>}
    ELSE LET shorter == SeqsUpTo(S, n - 1)
         IN  shorter \cup {Append(s, x) : s \in shorter, x \in S}

SourceLists == SeqsUpTo(SourceRows, MaxEntries)

(* names the key derivation is applied to: every short string over a   *)
(* word character, the two whitespace characters, the hyphen and a     *)
(* character the regular expression removes, and the same strings      *)
(* behind a prefix that reaches the length limit                       *)
NameChars == {"a", " ", "\t", "-", "!"}
ShortNames == SeqsUpTo(NameChars, MaxNameLen)
Padding == [i \in 1..(FilenameLimit - 1) |-> "a"]
LongNames == {Padding \o t : t \in SeqsUpTo(NameChars, 2)}
KeyNames == ShortNames \cup LongNames
KeyUrls == {UrlA, <<"x", "/">>}
KeyLists == {<<Row(n, u)>> : n \in KeyNames, u \in KeyUrls}

(* source lists whose queue file is longer than the reader's chunk *)
LongLists == SeqsUpTo(SourceRows, MaxLongEntries)

AllKeys == {GenerateFilename(r.name, r.url) : r \in SourceRows}

Outcomes == {"ok", "none", "raise"}

VARIABLES
    sourceList,   \* scholarships.csv: the (name, url) rows, in order
    maxRetries,   \* self.max_retries
    store,        \* Record Store: names of the files in output_dir
    queueFile,    \* scholarship_queue.csv: rows (name, url, is_scraped)
    pc,           \* position of run()
    cur,          \* index of the row get_next_unscraped returned (0: none)
    remaining,    \* run's local `remaining`
    outs,         \* outcomes of the attempts made for the current row
    last_error,   \* run's local `last_error`
    processed,    \* run's local `processed`
    failed,       \* run's local `failed`
    skipped,      \* run's local `skipped`
    slept,        \* whether the inter-item delay slept after the last item
    callsOf,      \* history: extractor invocations per row, this run
    runs,         \* history: number of restarts so far
    extWrites,    \* history: files written by another writer
    lastInit,     \* history: what the last initialize_queue saw and wrote
    resume,       \* history: the queue file as this run found it
    expectNext,   \* history: row the killed run would have extracted next
    inFlight,     \* history: row the killed run had selected and not marked
    succeeded,    \* history: rows the extractor returned a record for, this run
    ioFailed,     \* history: a queue or store operation has raised, this run
    scanned,      \* what a get_next_unscraped call on a long queue file returned
    last_count,       \* list scraper, scrape_with_selenium: `last_count`
    scroll_attempts,  \* list scraper, scrape_with_selenium: `scroll_attempts`
    scrolls,          \* history: scroll iterations performed
    scroll_pc         \* position of scrape_with_selenium

vars == <<sourceList, maxRetries, store, queueFile, pc, cur, remaining, outs,
          last_error, processed, failed, skipped, slept, callsOf, runs,
          extWrites, lastInit, resume, expectNext, inFlight, succeeded,
          ioFailed, scanned, last_count, scroll_attempts, scrolls, scroll_pc>>

(* the state of the list scraper (src/scraper.py), a program of its own *)
listScraper == <<last_count, scroll_attempts, scrolls, scroll_pc>>

N == Len(sourceList)

RECURSIVE SumTo(_, _)
SumTo(f, n) == IF n = 0 THEN 0 ELSE f[n] + SumTo(f, n - 1)

(* extractor invocations made so far in this run *)
Calls == SumTo(callsOf, N)

KeyOf(q, i) == GenerateFilename(q[i].name, q[i].url)

(* --------------------------------------------------------- queue functions *)

(* a mutant of the queue write: the rows are appended to the file (mode 'a') *)
WriteQueueAppend(old, rows) == old \o rows

(* open(queue_csv, 'w') ... writer.writerows(queue_data) *)
WriteQueue(old, rows) == rows

(* a mutant of the probe in initialize_queue: the Record Store is not asked *)
QueueRowUnprobed(r, files) ==
    [name |-> r.name, url |-> r.url, is_scraped |-> "False"]

(* one row of queue_data in initialize_queue *)
QueueRow(r, files) ==
    [name |-> r.name, url |-> r.url,
     is_scraped |-> IF IsScraped(r.name, r.url, files) THEN "True" ELSE "False"]

(* queue_data of initialize_queue *)
BuildQueue(src, files) == [i \in 1..Len(src) |-> QueueRow(src[i], files)]

(* a mutant of update_queue: the queue file is never rewritten *)
UpdateQueueNoop(q, url, is_scraped) == q

(* update_queue(url, is_scraped) *)
UpdateQueue(q, url, is_scraped) ==
    LET flag == IF is_scraped THEN "True" ELSE "False"
        queue_data == [i \in 1..Len(q) |->
                          IF q[i].url = url
                          THEN [q[i] EXCEPT !.is_scraped = flag]
                          ELSE q[i]]
        updated == \E i \in 1..Len(q) : q[i].url = url /\ q[i].is_scraped # flag
    IN  IF updated THEN WriteQueue(q, queue_data) ELSE q

(* get_next_unscraped.  The reader iterates over the rows it opened        *)
(* (`rows`: a queue file of a few rows is read into the reader's buffer in *)
(* one piece), while every update_queue call re-reads and rewrites the     *)
(* file on disk (`disk`).  Result: the file afterwards and the index of    *)
(* the returned row, 0 for None.                                           *)
RECURSIVE ScanQueue(_, _, _, _)
ScanQueue(rows, disk, files, i) ==
    IF i > Len(rows) THEN [queue |-> disk, row |-> 0]
    ELSE IF rows[i].is_scraped = "False"
         THEN IF IsScraped(rows[i].name, rows[i].url, files)
              THEN ScanQueue(rows, UpdateQueue(disk, rows[i].url, TRUE), files, i + 1)
              ELSE [queue |-> disk, row |-> i]
         ELSE ScanQueue(rows, disk, files, i + 1)

(* a mutant of get_next_unscraped: the first row marked False is returned *)
(* without the double-check against the Record Store                      *)
GetNextUnscrapedNoProbe(q, files) ==
    LET open == {i \in 1..Len(q) : q[i].is_scraped = "False"}
    IN  [queue |-> q,
         row |-> IF open = {} THEN 0
                 ELSE CHOOSE i \in open : \A j \in open : i <= j]

GetNextUnscraped(q, files) == ScanQueue(q, q, files, 1)

(* ------------------------------------------------- the queue file as text *)

(* writer.writeheader(): fieldnames joined by the delimiter *)
Header ==
    <<"S", "c", "h", "o", "l", "a", "r", "s", "h", "i", "p", " ",
      "N", "a", "m", "e", ",", "U", "R", "L", ",",
      "i", "s", "_", "s", "c", "r", "a", "p", "e", "d">>

(* csv.writer's line terminator; the file is opened with newline='' *)
LineTerminator == <<"\r", "\n">>

FlagText(flag) ==
    IF flag = "True" THEN <<"T", "r", "u", "e">>
    ELSE <<"F", "a", "l", "s", "e">>

(* writer.writerow: no field of the model's alphabet needs quoting *)
RowText(r) ==
    r.name \o <<",">> \o r.url \o <<",">> \o FlagText(r.is_scraped)
        \o LineTerminator

RECURSIVE RowsText(_)
RowsText(q) == IF q = <<>> THEN <<>> ELSE RowText(Head(q)) \o RowsText(Tail(q))

(* the bytes of the queue file holding the rows q *)
FileText(q) == Header \o LineTerminator \o RowsText(q)

(* the position of the first complete line end in the decoded buffer, 0 if *)
(* none: a carriage return that ends the buffer waits for the next chunk   *)
(* (universal newlines)                                                    *)
LineEnd(buf, atEof) ==
    LET ends == {i \in 1..Len(buf) :
                    \/ buf[i] = "\n"
                    \/ buf[i] = "\r" /\ (i < Len(buf) \/ atEof)}
    IN  IF ends = {} THEN 0 ELSE CHOOSE i \in ends : \A j \in ends : i <= j

(* f.readline() of the text file opened in get_next_unscraped (line 137): *)
(* the reader keeps what it has decoded (buf) and its offset in the file  *)
(* (off); when buf holds no complete line it reads the next `size` bytes  *)
(* of the file as it is on disk at that moment (text)                     *)
RECURSIVE ReadLine(_, _, _, _)
ReadLine(buf, off, text, size) ==
    LET atEof == off >= Len(text)
        e == LineEnd(buf, atEof)
    IN  IF e > 0
        THEN LET crlf == buf[e] = "\r" /\ e < Len(buf) /\ buf[e + 1] = "\n"
                 used == IF crlf THEN e + 1 ELSE e
             IN  [some |-> TRUE, line |-> SubSeq(buf, 1, e - 1),
                  buf |-> SubSeq(buf, used + 1, Len(buf)), off |-> off]
        ELSE IF ~atEof
             THEN LET upto == IF off + size > Len(text) THEN Len(text)
                              ELSE off + size
                  IN  ReadLine(buf \o SubSeq(text, off + 1, upto), upto,
                               text, size)
             ELSE IF buf # <<>>
                  THEN [some |-> TRUE, line |-> buf, buf |-> <<>>, off |-> off]
                  ELSE [some |-> FALSE, line |-> <<>>, buf |-> <<>>,
                        off |-> off]

(* the csv reader splits a line at the delimiter *)
RECURSIVE SplitFields(_)
SplitFields(line) ==
    LET commas == {i \in 1..Len(line) : line[i] = ","}
    IN  IF commas = {} THEN <<line>>
        ELSE LET c == CHOOSE i \in commas : \A j \in commas : i <= j
             IN  <<SubSeq(line, 1, c - 1)>>
                     \o SplitFields(SubSeq(line, c + 1, Len(line)))

(* get_next_unscraped, lines 137-149, on a file the reader takes in chunks *)
(* of `size` bytes.  DictReader skips blank lines and pairs the fields     *)
(* with the header's names; a line with fewer than three fields has no     *)
(* is_scraped value.  update_queue opens the file itself, so it always     *)
(* works on the whole file (q), and its rewrite changes the text under     *)
(* the reader.  Result: the rows on disk afterwards and the returned row   *)
(* (<<>> for None).                                                        *)
RECURSIVE ScanFile(_, _, _, _, _)
ScanFile(buf, off, q, files, size) ==
    LET l == ReadLine(buf, off, FileText(q), size)
        f == SplitFields(l.line)
    IN  IF ~l.some THEN [queue |-> q, row |-> <<>>]
        ELSE IF l.line # <<>> /\ Len(f) >= 3 /\ f[3] = FlagText("False")
             THEN IF IsScraped(f[1], f[2], files)
                  THEN ScanFile(l.buf, l.off, UpdateQueue(q, f[2], TRUE),
                                files, size)
                  ELSE [queue |-> q,
                        row |-> <<[name |-> f[1], url |-> f[2],
                                   is_scraped |-> "False"]>>]
             ELSE ScanFile(l.buf, l.off, q, files, size)

(* the header line is consumed as the field names, then the rows are *)
(* scanned                                                           *)
GetNextUnscrapedChunked(q, files, size) ==
    LET h == ReadLine(<<>>, 0, FileText(q), size)
    IN  ScanFile(h.buf, h.off, q, files, size)

(* count_remaining *)
CountRemaining(q) == Cardinality({i \in 1..Len(q) : q[i].is_scraped = "False"})

(* a mutant of the retry loop: one attempt too many *)
RetryLeftInclusive(made, max_retries) == made <= max_retries

(* for attempt in range(1, max_retries + 1): another attempt follows `made` *)
(* attempts                                                                 *)
RetryLeft(made, max_retries) == made < max_retries

(* ------------------------------------------------------------------ Init *)

(* scrape_with_selenium, lines 143-145, before the scroll loop *)
ScrollStart ==
    /\ last_count = 0
    /\ scroll_attempts = 0
    /\ scrolls = 0
    /\ scroll_pc = "scrolling"

NoInit == [valid |-> FALSE, queue |-> <<>>, files |-> {}]
NoResume == [queue |-> <<>>, files |-> {}, fresh |-> FALSE]

ZeroCalls == [i \in 1..MaxEntries + 1 |-> 0]

NoScan == [size |-> 0, row |-> <<>>, before |-> <<>>, files |-> {},
           invoked |-> FALSE]

InitWith(lists) ==
    /\ sourceList \in lists
    /\ maxRetries \in 1..MaxRetriesBound
    /\ store \in SUBSET AllKeys
    /\ queueFile = <<>>
    /\ pc = "start"
    /\ cur = 0
    /\ remaining = 0
    /\ outs = <<>>
    /\ last_error = "None"
    /\ processed = 0
    /\ failed = 0
    /\ skipped = <<>>
    /\ slept = FALSE
    /\ callsOf = ZeroCalls
    /\ runs = 0
    /\ extWrites = 0
    /\ lastInit = NoInit
    /\ resume = NoResume
    /\ expectNext = -1
    /\ inFlight = 0
    /\ succeeded = {}
    /\ ioFailed = FALSE
    /\ scanned = NoScan
    /\ ScrollStart

Init == InitWith(SourceLists)

config == <<sourceList, maxRetries, listScraper>>
hist == <<runs, extWrites, lastInit, resume, expectNext, inFlight>>
marks == <<succeeded, ioFailed, scanned>>

(* --------------------------------------------------------------- actions *)

(* run, line 179: initialize_queue rebuilds the queue file from the source *)
(* list and the Record Store                                                *)
InitializeQueue ==
    /\ pc = "start"
    /\ queueFile' = WriteQueue(queueFile, BuildQueue(sourceList, store))
    /\ lastInit' = [valid |-> TRUE, queue |-> queueFile', files |-> store]
    /\ resume' = [queue |-> queueFile, files |-> store,
                   fresh |-> /\ lastInit.valid
                             /\ lastInit.queue = queueFile
                             /\ lastInit.files = store]
    /\ pc' = "loop"
    /\ UNCHANGED <<config, store, cur, remaining, outs, last_error, processed,
                   failed, skipped, slept, callsOf, runs, extWrites, expectNext,
                   inFlight, marks>>

(* run, lines 188-200: get_next_unscraped, the break, count_remaining *)
GetNext ==
    /\ pc = "loop"
    /\ processed + failed < ItemCap
    /\ LET r == GetNextUnscraped(queueFile, store)
       IN  /\ queueFile' = r.queue
           /\ cur' = r.row
           /\ IF r.row = 0
              THEN /\ pc' = "done"
                   /\ remaining' = remaining
              ELSE /\ pc' = "recheck"
                   /\ remaining' = CountRemaining(r.queue)
    /\ UNCHANGED <<config, store, outs, last_error, processed, failed, skipped,
                   slept, callsOf, hist, marks>>

(* run, lines 207-216: the safety check before scraping *)
Recheck ==
    /\ pc = "recheck"
    /\ IF IsScraped(queueFile[cur].name, queueFile[cur].url, store)
       THEN /\ queueFile' = UpdateQueue(queueFile, queueFile[cur].url, TRUE)
            /\ processed' = processed + 1
            /\ slept' = FALSE
            /\ pc' = "loop"
            /\ UNCHANGED <<outs, last_error>>
       ELSE /\ outs' = <<>>
            /\ last_error' = "None"
            /\ pc' = IF RetryLeft(0, maxRetries) THEN "attempt" ELSE "exhausted"
            /\ UNCHANGED <<queueFile, processed, slept>>
    /\ UNCHANGED <<config, store, cur, remaining, failed, skipped,
                   callsOf, hist, marks>>

(* a mutant of the except clause: nothing raised in the try is caught *)
CaughtNothing(o) == FALSE

(* run, line 238: `except Exception` catches what the try block raises *)
Caught(o) == o = "raise"

(* run, lines 244-246 after a failed attempt: the next attempt, or the end *)
(* of the for loop                                                         *)
AfterFailedAttempt(made) ==
    IF RetryLeft(made, maxRetries) THEN "attempt" ELSE "exhausted"

(* run, lines 216-246: one attempt; o is what scrape_scholarship does *)
Scrape(o) ==
    /\ pc = "attempt"
    /\ callsOf' = [callsOf EXCEPT ![cur] = @ + 1]
    /\ outs' = Append(outs, o)
    /\ succeeded' = IF o = "ok" THEN succeeded \cup {cur} ELSE succeeded
    /\ IF o = "ok"
       THEN /\ pc' = "save"
            /\ UNCHANGED last_error
       ELSE IF o = "raise" /\ ~Caught(o)
            THEN /\ pc' = "crashed"
                 /\ UNCHANGED last_error
            ELSE /\ last_error' = IF o = "none"
                                  THEN "No data returned from scraper"
                                  ELSE "exception"
                 /\ pc' = AfterFailedAttempt(Len(outs) + 1)
    /\ UNCHANGED <<config, store, queueFile, cur, remaining, processed, failed,
                   skipped, slept, hist, ioFailed, scanned>>

(* a mutant of save_scholarship_json: the record never reaches the store *)
SaveScholarshipJsonLost(q, i, files) == files

(* save_scholarship_json, lines 161-169: the record is written under the *)
(* row's derived key                                                      *)
SaveScholarshipJson(q, i, files) == files \cup {KeyOf(q, i)}

(* run, line 223: save_scholarship_json *)
SaveJson ==
    /\ pc = "save"
    /\ store' = SaveScholarshipJson(queueFile, cur, store)
    /\ pc' = "mark"
    /\ UNCHANGED <<config, queueFile, cur, remaining, outs, last_error, processed,
                   failed, skipped, slept, callsOf, hist, marks>>

(* a mutant of the success branch: no break, the for loop goes on *)
AfterSuccessNoBreak(made) == AfterFailedAttempt(made)

(* run, lines 233-234 and 248: success = True; break; the give-up block *)
(* is skipped                                                           *)
AfterSuccess(made) == "delay"

(* run, lines 225-234: filepath.exists() only chooses the message that *)
(* is printed (225-228); update_queue and the count follow either way   *)
MarkSuccess ==
    /\ pc = "mark"
    /\ queueFile' = UpdateQueue(queueFile, queueFile[cur].url, TRUE)
    /\ processed' = processed + 1
    /\ pc' = AfterSuccess(Len(outs))
    /\ UNCHANGED <<config, store, cur, remaining, outs, last_error, failed,
                   skipped, slept, callsOf, hist, marks>>

(* run, lines 248-258: all attempts failed *)
GiveUp ==
    /\ pc = "exhausted"
    /\ failed' = failed + 1
    /\ skipped' = Append(skipped, [name |-> queueFile[cur].name,
                                   url |-> queueFile[cur].url,
                                   reason |-> IF last_error = "None"
                                              THEN "Unknown error"
                                              ELSE last_error])
    /\ queueFile' = UpdateQueue(queueFile, queueFile[cur].url, TRUE)
    /\ pc' = "delay"
    /\ UNCHANGED <<config, store, cur, remaining, outs, last_error, processed,
                   slept, callsOf, hist, marks>>

(* a mutant of the delay test: the delay is slept while any row was *)
(* counted                                                          *)
DelayDueAny(left) == left > 0

(* run, line 261: `if remaining > 1`, remaining as counted at line 200 *)
DelayDue(left) == left > 1

(* run, lines 261-263 *)
Delay ==
    /\ pc = "delay"
    /\ slept' = DelayDue(remaining)
    /\ pc' = "loop"
    /\ UNCHANGED <<config, store, queueFile, cur, remaining, outs, last_error,
                   processed, failed, skipped, callsOf, hist, marks>>

(* the row the running process would hand to the extractor next, 0 if none *)
WouldExtractNext ==
    LET url == queueFile[cur].url
        marked == UpdateQueue(queueFile, url, TRUE)
    IN  CASE pc = "attempt" -> cur
          [] pc = "recheck" ->
                IF IsScraped(queueFile[cur].name, url, store)
                THEN GetNextUnscraped(marked, store).row
                ELSE IF RetryLeft(0, maxRetries) THEN cur
                     ELSE GetNextUnscraped(marked, store).row
          [] pc = "save" ->
                GetNextUnscraped(marked, store \cup {KeyOf(queueFile, cur)}).row
          [] pc \in {"mark", "exhausted"} -> GetNextUnscraped(marked, store).row
          [] pc \in {"loop", "delay"} -> GetNextUnscraped(queueFile, store).row
          [] OTHER -> 0

FreshLocals ==
    /\ pc' = "start"
    /\ cur' = 0
    /\ remaining' = 0
    /\ outs' = <<>>
    /\ last_error' = "None"
    /\ processed' = 0
    /\ failed' = 0
    /\ skipped' = <<>>
    /\ slept' = FALSE
    /\ callsOf' = ZeroCalls
    /\ succeeded' = {}
    /\ ioFailed' = FALSE
    /\ scanned' = scanned

(* the process is killed inside run() and run() is started again *)
Kill ==
    /\ pc \notin {"start", "done"}
    /\ runs < MaxRuns
    /\ runs' = runs + 1
    /\ expectNext' = WouldExtractNext
    /\ inFlight' = IF pc \in {"recheck", "attempt", "save", "mark", "exhausted"}
                   THEN cur ELSE 0
    /\ FreshLocals
    /\ UNCHANGED <<config, store, queueFile, extWrites, lastInit, resume>>

(* run() has returned and is started again later *)
Rerun ==
    /\ pc = "done"
    /\ runs < MaxRuns
    /\ runs' = runs + 1
    /\ expectNext' = -1
    /\ inFlight' = 0
    /\ FreshLocals
    /\ UNCHANGED <<config, store, queueFile, extWrites, lastInit, resume>>

(* another writer (a concurrent run, a manual copy) adds a record file *)
ExternalWrite ==
    /\ extWrites < MaxExternal
    /\ \E k \in AllKeys \ store : store' = store \cup {k}
    /\ extWrites' = extWrites + 1
    /\ UNCHANGED <<config, queueFile, pc, cur, remaining, outs, last_error,
                   processed, failed, skipped, slept, callsOf, runs, lastInit,
                   resume, expectNext, inFlight, marks>>

(* another process (a cleanup job, a user) removes a record file; the *)
(* re-stat at line 225 is where run() can notice                      *)
ExternalDelete ==
    /\ extWrites < MaxExternal
    /\ \E k \in store : store' = store \ {k}
    /\ extWrites' = extWrites + 1
    /\ UNCHANGED <<config, queueFile, pc, cur, remaining, outs, last_error,
                   processed, failed, skipped, slept, callsOf, runs, lastInit,
                   resume, expectNext, inFlight, marks>>

(* run, lines 223 and 238-246: save_scholarship_json raises (disk full, *)
(* permission denied) inside the try block; open(filepath, 'w') may     *)
(* have created the file before the failure                             *)
SaveFails(created) ==
    /\ pc = "save"
    /\ store' = IF created THEN SaveScholarshipJson(queueFile, cur, store)
                ELSE store
    /\ ioFailed' = TRUE
    /\ IF Caught("raise")
       THEN /\ last_error' = "exception"
            /\ pc' = AfterFailedAttempt(Len(outs))
       ELSE /\ pc' = "crashed"
            /\ UNCHANGED last_error
    /\ UNCHANGED <<config, queueFile, cur, remaining, outs, processed, failed,
                   skipped, slept, callsOf, hist, succeeded, scanned>>

(* run, lines 230 and 238-246: update_queue raises inside the try block *)
(* before it has written anything                                       *)
MarkFails ==
    /\ pc = "mark"
    /\ ioFailed' = TRUE
    /\ IF Caught("raise")
       THEN /\ last_error' = "exception"
            /\ pc' = AfterFailedAttempt(Len(outs))
       ELSE /\ pc' = "crashed"
            /\ UNCHANGED last_error
    /\ UNCHANGED <<config, store, queueFile, cur, remaining, outs, processed,
                   failed, skipped, slept, callsOf, hist, succeeded, scanned>>

(* the next statement of run() is a queue write outside the try block: *)
(* initialize_queue (line 179), the heal inside get_next_unscraped     *)
(* (line 188), update_queue after the safety check (line 209) or after *)
(* the retries (line 257)                                              *)
QueueWriteOutsideTry ==
    CASE pc = "start" -> TRUE
      [] pc = "loop" -> GetNextUnscraped(queueFile, store).queue # queueFile
      [] pc = "recheck" ->
            IsScraped(queueFile[cur].name, queueFile[cur].url, store)
      [] pc = "exhausted" -> TRUE
      [] OTHER -> FALSE

(* that queue write raises: nothing in run() handles it *)
IoHalt ==
    /\ QueueWriteOutsideTry
    /\ ioFailed' = TRUE
    /\ pc' = "crashed"
    /\ UNCHANGED <<config, store, queueFile, cur, remaining, outs, last_error,
                   processed, failed, skipped, slept, callsOf, hist, succeeded, scanned>>

(* run, line 188, on a queue file longer than the reader's chunk *)
GetNextLongFile(size) ==
    /\ pc = "loop"
    /\ LET r == GetNextUnscrapedChunked(queueFile, store, size)
       IN  /\ queueFile' = r.queue
           /\ scanned' = [size |-> size, row |-> r.row, before |-> queueFile,
                          files |-> store, invoked |-> FALSE]
    /\ pc' = "scanned"
    /\ UNCHANGED <<config, store, cur, remaining, outs, last_error, processed,
                   failed, skipped, slept, callsOf, hist, succeeded, ioFailed>>

(* run, lines 198-219, for the row that call returned: it passes the *)
(* safety check and its url is handed to the extractor               *)
ExtractReturned ==
    /\ pc = "scanned"
    /\ scanned.row # <<>>
    /\ ~IsScraped(scanned.row[1].name, scanned.row[1].url, store)
    /\ RetryLeft(0, maxRetries)
    /\ scanned' = [scanned EXCEPT !.invoked = TRUE]
    /\ pc' = "attempt_returned"
    /\ UNCHANGED <<config, store, queueFile, cur, remaining, outs, last_error,
                   processed, failed, skipped, slept, callsOf, hist, succeeded,
                   ioFailed>>

(* the rows the next statement of run() writes to the queue file with *)
(* open(queue_csv, 'w') ... writerows (lines 89-95, 126-132); the file *)
(* as it is when that statement writes nothing                         *)
PendingWrite ==
    CASE pc = "start" -> BuildQueue(sourceList, store)
      [] pc = "loop" -> GetNextUnscraped(queueFile, store).queue
      [] pc = "recheck" ->
            IF IsScraped(queueFile[cur].name, queueFile[cur].url, store)
            THEN UpdateQueue(queueFile, queueFile[cur].url, TRUE)
            ELSE queueFile
      [] pc \in {"mark", "exhausted"} ->
            UpdateQueue(queueFile, queueFile[cur].url, TRUE)
      [] OTHER -> queueFile

(* the process is killed inside that write: open(..., 'w') has truncated *)
(* the file in place and only the first k rows have reached the disk     *)
(* (k = 0: the rows were still in the writer's buffer)                   *)
KillInWrite(k) ==
    /\ pc = "start" \/ PendingWrite # queueFile
    /\ k < Len(PendingWrite)
    /\ queueFile' = SubSeq(PendingWrite, 1, k)
    /\ pc' = "killed"
    /\ UNCHANGED <<config, store, cur, remaining, outs, last_error, processed,
                   failed, skipped, slept, callsOf, hist, marks>>

(* the steps of run() itself *)
Step ==
    \/ InitializeQueue
    \/ GetNext
    \/ Recheck
    \/ \E o \in Outcomes : Scrape(o)
    \/ SaveJson
    \/ MarkSuccess
    \/ GiveUp
    \/ Delay

Next ==
    \/ InitializeQueue
    \/ GetNext
    \/ Recheck
    \/ \E o \in Outcomes : Scrape(o)
    \/ SaveJson
    \/ MarkSuccess
    \/ GiveUp
    \/ Delay
    \/ Kill
    \/ Rerun

NextRace ==
    \/ Step
    \/ ExternalWrite

NextIo ==
    \/ Step
    \/ \E created \in BOOLEAN : SaveFails(created)
    \/ MarkFails
    \/ IoHalt

NextLongFile ==
    \/ InitializeQueue
    \/ ExternalWrite
    \/ \E size \in ChunkSizes : GetNextLongFile(size)
    \/ ExtractReturned

NextVerify ==
    \/ Step
    \/ ExternalDelete

NextTorn ==
    \/ Step
    \/ \E k \in 0..MaxLongEntries : KillInWrite(k)

(* a single orchestrator process, killed and restarted at most MaxRuns times *)
Spec == Init /\ [][Next]_vars

(* one run with another writer on the Record Store *)
RaceSpec == Init /\ [][NextRace]_vars

(* one run that is not killed: the process keeps running and the extractor *)
(* returns from every call                                                 *)
LiveSpec == Init /\ [][Step]_vars /\ WF_vars(Step)

(* one run during which writes to the queue file and the Record Store may *)
(* raise                                                                  *)
IoSpec == Init /\ [][NextIo]_vars

(* one run during which a record file may disappear from the Record Store *)
VerifySpec == Init /\ [][NextVerify]_vars

(* one run that can be killed while it writes the queue file *)
TornSpec == Init /\ [][NextTorn]_vars

(* save_scholarship_json applied to one row of the source list on an empty *)
(* Record Store: the store then holds the key generate_filename derived    *)
SaveOneRow ==
    /\ pc = "start"
    /\ store' = SaveScholarshipJson(sourceList, 1, store)
    /\ pc' = "done"
    /\ UNCHANGED <<config, queueFile, cur, remaining, outs, last_error,
                   processed, failed, skipped, slept, callsOf, hist, marks>>

KeyInit == InitWith(KeyLists) /\ maxRetries = 1 /\ store = {}

(* the key derivation applied to every name and url of KeyLists *)
KeySpec == KeyInit /\ [][SaveOneRow]_vars

(* a url no row of the queue carries *)
UrlNone == <<"x", "/", "z">>

(* the url update_queue is called with: that of row cur, or one that is *)
(* not in the queue                                                     *)
ArgUrl == IF cur = 0 THEN UrlNone ELSE queueFile[cur].url

(* queue files of the rows of src, with every combination of flags *)
FlaggedQueues(src) ==
    {[i \in 1..Len(src) |->
         [name |-> src[i].name, url |-> src[i].url, is_scraped |-> flags[i]]] :
       flags \in [1..Len(src) -> {"True", "False"}]}

(* a queue file, a Record Store and a url, before update_queue(url, True) *)
FrameInit ==
    /\ sourceList \in SourceLists
    /\ maxRetries = 1
    /\ store \in SUBSET AllKeys
    /\ queueFile \in FlaggedQueues(sourceList)
    /\ pc = "update"
    /\ cur \in 0..Len(sourceList)
    /\ remaining = 0
    /\ outs = <<>>
    /\ last_error = "None"
    /\ processed = 0
    /\ failed = 0
    /\ skipped = <<>>
    /\ slept = FALSE
    /\ callsOf = ZeroCalls
    /\ runs = 0
    /\ extWrites = 0
    /\ lastInit = NoInit
    /\ resume = NoResume
    /\ expectNext = -1
    /\ inFlight = 0
    /\ succeeded = {}
    /\ ioFailed = FALSE
    /\ scanned = [NoScan EXCEPT !.before = queueFile, !.files = store]
    /\ ScrollStart

(* update_queue(url, True), lines 110-133, called on its own *)
UpdateQueueCall ==
    /\ pc = "update"
    /\ queueFile' = UpdateQueue(queueFile, ArgUrl, TRUE)
    /\ pc' = "updated"
    /\ UNCHANGED <<config, store, cur, remaining, outs, last_error, processed,
                   failed, skipped, slept, callsOf, hist, marks>>

(* update_queue applied to every queue file of FlaggedQueues *)
FrameSpec == FrameInit /\ [][UpdateQueueCall]_vars

(* what the page can show after one more scroll: the links it showed, or *)
(* up to MaxBatch more                                                   *)
CountsAfterScroll ==
    {c \in last_count..(last_count + MaxBatch) : c <= MaxLinks}

(* scrape_with_selenium, lines 148-166: the loop test and one iteration  *)
(* that finds current_count links                                        *)
ScrollOnce(current_count) ==
    /\ scroll_pc = "scrolling"
    /\ IF scroll_attempts < MaxScrolls
       THEN /\ scrolls' = scrolls + 1
            /\ IF current_count = last_count
               THEN /\ scroll_attempts' = scroll_attempts + 1
                    /\ scroll_pc' = IF scroll_attempts' >= StallLimit
                                    THEN "extracting"
                                    ELSE "scrolling"
                    /\ UNCHANGED last_count
               ELSE /\ scroll_attempts' = 0
                    /\ last_count' = current_count
                    /\ scroll_pc' = "scrolling"
       ELSE /\ scroll_pc' = "extracting"
            /\ UNCHANGED <<last_count, scroll_attempts, scrolls>>
    /\ UNCHANGED <<sourceList, maxRetries, store, queueFile, pc, cur,
                   remaining, outs, last_error, processed, failed, skipped,
                   slept, callsOf, hist, marks>>

(* scrape_with_selenium, lines 155 and 167-169: find_elements raises     *)
(* after the scroll and the loop is left                                 *)
FindElementsFails ==
    /\ scroll_pc = "scrolling"
    /\ scroll_attempts < MaxScrolls
    /\ scrolls' = scrolls + 1
    /\ scroll_pc' = "extracting"
    /\ UNCHANGED <<last_count, scroll_attempts>>
    /\ UNCHANGED <<sourceList, maxRetries, store, queueFile, pc, cur,
                   remaining, outs, last_error, processed, failed, skipped,
                   slept, callsOf, hist, marks>>

NextScroll ==
    \/ \E c \in CountsAfterScroll : ScrollOnce(c)
    \/ FindElementsFails

ScrollInit == InitWith({<<>>}) /\ maxRetries = 1 /\ store = {}

(* the scroll loop of the list scraper on a page that loads more links *)
(* as it is scrolled                                                   *)
ScrollSpec == ScrollInit /\ [][NextScroll]_vars

(* the first get_next_unscraped call of a run whose queue file does not *)
(* fit into one chunk of the reader                                     *)
LongFileSpec == InitWith(LongLists) /\ [][NextLongFile]_vars

(* ------------------------------------------------------------ the claims *)

(* the step is an extractor invocation for row cur *)
Invoked == pc = "attempt" /\ pc' # "start" /\ outs' # outs

AllNone(s) == \A i \in 1..Len(s) : s[i] = "none"

SkippedRow(k) == [name |-> skipped[k].name, url |-> skipped[k].url]

(* C1: bounded retries.  With max_retries >= 1 and an extractor that has   *)
(* returned None on every call for the row, another attempt follows while  *)
(* fewer than max_retries were made; after exactly max_retries the row is  *)
(* given up: it becomes scraped=True, is appended to the skipped list, and *)
(* the loop goes on and never selects a skipped row again.                 *)
C1_BoundedRetries ==
    [][ /\ (Invoked /\ AllNone(outs')) =>
              /\ callsOf'[cur] = Len(outs')
              /\ callsOf'[cur] <= maxRetries
              /\ IF callsOf'[cur] < maxRetries
                 THEN pc' = "attempt" /\ cur' = cur
                 ELSE pc' = "exhausted" /\ cur' = cur
        /\ (pc = "exhausted" /\ pc' # "start" /\ maxRetries >= 1) =>
              /\ callsOf[cur] = maxRetries
              /\ queueFile'[cur].is_scraped = "True"
              /\ skipped' = Append(skipped, [name |-> queueFile[cur].name,
                                             url |-> queueFile[cur].url,
                                             reason |-> last_error])
              /\ failed' = failed + 1
              /\ pc' = "delay"
        /\ (pc = "delay" /\ pc' # "start") => pc' = "loop"
        /\ (pc = "loop" /\ pc' = "recheck") =>
              \A k \in 1..Len(skipped) : skipped[k].url # queueFile'[cur'].url
      ]_vars

(* C1 witness: two rows were given up one after the other, the last one    *)
(* after max_retries = 2 calls that all returned None                      *)
C1_Witness ==
    /\ maxRetries = 2
    /\ pc = "delay"
    /\ Len(skipped) = 2
    /\ AllNone(outs)
    /\ callsOf[cur] = 2
    /\ skipped[2].reason = "No data returned from scraper"

(* C2: in every state of a run the number of extractor invocations made so *)
(* far in the run is at most N * max_retries                               *)
C2_InvocationBound == Calls <= N * maxRetries

(* C2 witness: the bound is reached with mixed outcomes *)
C2_Witness ==
    /\ N = 2
    /\ maxRetries = 2
    /\ Calls = N * maxRetries
    /\ processed = 1
    /\ outs = <<"raise", "none">>

(* C3: every run reaches the state where get_next_unscraped returns None,  *)
(* and a row whose retries are exhausted does not keep the run from it     *)
C3_Termination ==
    /\ <>(pc = "done")
    /\ (pc = "exhausted") ~> (pc = "done")
    /\ (pc = "start") ~> (pc = "done")

(* C3 witness: the run ended although its first row failed for good, and a *)
(* later row was extracted                                                 *)
C3_Witness ==
    /\ pc = "done"
    /\ N = 2
    /\ failed = 1
    /\ callsOf[1] = maxRetries
    /\ callsOf[2] >= 1
    /\ SkippedRow(1) = sourceList[1]

(* the queue file this run found has the rows of the source list, and its  *)
(* rows marked done are exactly those with a file in the Record Store      *)
ResumeAgrees ==
    /\ Len(resume.queue) = N
    /\ \A i \in 1..N :
          /\ resume.queue[i].name = sourceList[i].name
          /\ resume.queue[i].url = sourceList[i].url
          /\ (resume.queue[i].is_scraped = "True"
                <=> KeyOf(resume.queue, i) \in resume.files)

Desync(q, files, i) == q[i].is_scraped = "False" /\ KeyOf(q, i) \in files

C6_TerminalStates ==
    [][ /\ \A i \in 1..Len(queueFile) :
              queueFile[i].is_scraped = "True"
                 => /\ i <= Len(queueFile')
                    /\ queueFile'[i].is_scraped = "True"
        /\ Invoked => queueFile[cur].is_scraped = "False"
      ]_vars

(* the first row the extractor was invoked for in this run, 0 if none *)
FirstCalled ==
    IF Calls = 0 THEN 0
    ELSE CHOOSE i \in 1..N : callsOf[i] > 0 /\ \A j \in 1..(i - 1) : callsOf[j] = 0

(* C7: crash-safe resumability.  After a kill, the first row the restarted *)
(* run hands to the extractor is the row the killed run would have handed  *)
(* to it next (none, if the killed run would have made no further call);   *)
(* the one row in flight at the kill, whose progress was only in memory,   *)
(* may be handed to the extractor again instead.                           *)
C7_CrashSafeNext ==
    expectNext # -1 =>
       /\ Calls >= 1 => FirstCalled \in {expectNext, inFlight}
       /\ pc = "done" => FirstCalled \in {expectNext, inFlight}

(* C8: no prior progress is lost by a kill.  The initialize_queue of the   *)
(* run restarted after a kill leaves scraped=True every row that was       *)
(* scraped=True in the queue file at the kill, and the restarted run       *)
(* invokes the extractor only for rows that were scraped=False then.       *)
C8_NoProgressLost ==
    [][ expectNext # -1 =>
           /\ (pc = "start" /\ pc' = "loop") =>
                 \A i \in 1..Len(queueFile) :
                    queueFile[i].is_scraped = "True"
                       => queueFile'[i].is_scraped = "True"
           /\ Invoked => resume.queue[cur].is_scraped = "False"
      ]_vars

(* C9: initialization agreement.  Right after initialize_queue the queue   *)
(* file has one row per source row, in source order, and a row is          *)
(* scraped=True exactly when the file of its key is in the Record Store.   *)
C9_InitAgreement ==
    [][ (pc = "start" /\ pc' = "loop") =>
           /\ Len(queueFile') = N
           /\ \A i \in 1..N :
                 /\ queueFile'[i].name = sourceList[i].name
                 /\ queueFile'[i].url = sourceList[i].url
                 /\ queueFile'[i].is_scraped \in {"True", "False"}
                 /\ (queueFile'[i].is_scraped = "True"
                       <=> GenerateFilename(sourceList[i].name, sourceList[i].url)
                              \in store')
      ]_vars

(* C9 witness: initialize_queue has just written a queue with one row that *)
(* has a file and one that has none                                        *)
C9_Witness ==
    /\ pc = "loop"
    /\ cur = 0
    /\ lastInit.valid
    /\ lastInit.queue = queueFile
    /\ N = 2
    /\ queueFile[1].is_scraped = "False"
    /\ queueFile[2].is_scraped = "True"

(* C10: initialize_queue is idempotent.  Run on the queue file that the    *)
(* previous initialize_queue wrote, with the Record Store unchanged since, *)
(* it leaves the queue file as it is; and whenever it runs, a row that is  *)
(* scraped=True and has its record in the Record Store stays scraped=True. *)
C10_InitIdempotent ==
    [][ (pc = "start" /\ pc' = "loop") =>
           /\ (lastInit.valid /\ lastInit.queue = queueFile
                 /\ lastInit.files = store) => queueFile' = queueFile
           /\ \A i \in 1..Len(queueFile) :
                 (queueFile[i].is_scraped = "True" /\ KeyOf(queueFile, i) \in store)
                    => /\ i <= Len(queueFile')
                       /\ queueFile'[i].is_scraped = "True"
      ]_vars

(* C10 witness: initialize_queue has run twice in a row on a list with a   *)
(* row that has a record and a row that has none                           *)
C10_Witness ==
    /\ pc = "loop"
    /\ cur = 0
    /\ runs >= 1
    /\ resume.fresh
    /\ resume.queue = queueFile
    /\ N = 2
    /\ queueFile[1].is_scraped = "True"
    /\ queueFile[2].is_scraped = "False"

(* rows of the current run whose attempts all failed *)
Exhausted == {i \in 1..N : callsOf[i] = maxRetries /\ i \notin succeeded}

ExtractionFails ==
    /\ pc = "attempt"
    /\ outs' # outs
    /\ outs'[Len(outs')] \in {"none", "raise"}

(* C12: a failed extraction never leaves run().  Whatever the attempt, a  *)
(* call that returns nothing usable or raises is followed by the next     *)
(* attempt for the same row or by the give-up step, with the error        *)
(* recorded; run() is left early only after a queue or store failure.     *)
C12_ExtractionFailureHandled ==
    [][ /\ ExtractionFails =>
            /\ pc' \in {"attempt", "exhausted"}
            /\ cur' = cur
            /\ last_error' # "None"
            /\ (pc' = "attempt") <=> (Len(outs') < maxRetries)
        /\ pc' = "crashed" => ioFailed' ]_vars

(* the row was given up after a None and then a raise, and run() went on *)
(* to the next row                                                       *)
C12_Witness ==
    /\ maxRetries = 2
    /\ outs = <<"none", "raise">>
    /\ failed = 1
    /\ ~ioFailed
    /\ pc = "recheck"
    /\ cur = 2

(* C13: a queue or store failure halts run().  Once a record write or a *)
(* queue rewrite has raised, run() is no longer running: no further     *)
(* attempt, no give-up, no next row.                                    *)
C13_IoFailureHalts == ioFailed => pc = "crashed"

(* run() has finished with an item and is back at the head of its loop *)
ItemHandled == pc \in {"recheck", "delay"} /\ pc' = "loop"

(* C14 as stated: after every item, whatever its outcome, the delay is *)
(* slept, except exactly when no row is left unscraped in the queue    *)
(* after the item.                                                     *)
C14_DelayAfterEveryItem ==
    [][ItemHandled => (slept' <=> CountRemaining(queueFile') > 0)]_vars

(* C14, amended: the unscraped rows of the queue file are counted when   *)
(* the item is selected; after an item that was extracted or given up    *)
(* the delay is slept exactly when that count exceeds one; an item found *)
(* already present at the safety check is followed by no delay at all.   *)
C14_DelayAfterScrapedItem ==
    [][ /\ (pc = "loop" /\ pc' = "recheck") =>
               remaining' = CountRemaining(queueFile')
        /\ (pc = "delay" /\ pc' = "loop") =>
               /\ slept' <=> (remaining > 1)
               /\ processed + failed >= 1
        /\ (pc = "recheck" /\ pc' = "loop") => ~slept' ]_vars

(* a row was found already present at the safety check while another row *)
(* is still unscraped: run() goes to that row without a delay            *)
C14_Witness ==
    /\ pc = "loop"
    /\ cur = 1
    /\ processed = 1
    /\ Calls = 0
    /\ ~slept
    /\ CountRemaining(queueFile) = 1

(* C15 while the queue file fits into one chunk of the reader: whenever  *)
(* the extractor is called for a row, every earlier row is scraped=True  *)
(* in the queue file, no later row has been handed to the extractor yet, *)
(* and every other row that was handed to it has its terminal mark.      *)
C15_SequentialShortFile ==
    [][Invoked =>
          /\ cur \in 1..N
          /\ \A j \in 1..(cur - 1) : queueFile[j].is_scraped = "True"
          /\ \A j \in (cur + 1)..N : callsOf[j] = 0
          /\ \A j \in 1..N : (j # cur /\ callsOf[j] > 0) =>
                                 queueFile[j].is_scraped = "True"]_vars

(* the second row is with the extractor after the first was given up *)
C15_WitnessShortFile ==
    /\ N = 2
    /\ cur = 2
    /\ callsOf[2] = 1
    /\ callsOf[1] = maxRetries
    /\ failed = 1
    /\ queueFile[1].is_scraped = "True"
    /\ queueFile[2].is_scraped = "False"

(* the first row, in list order, that is marked False and has no record *)
(* file; 0 if there is none                                             *)
FirstPending(q, files) ==
    LET open == {i \in 1..Len(q) : /\ q[i].is_scraped = "False"
                                   /\ ~IsScraped(q[i].name, q[i].url, files)}
    IN  IF open = {} THEN 0 ELSE CHOOSE i \in open : \A j \in open : i <= j

(* what get_next_unscraped is to return for the queue q *)
PendingRow(q, files) ==
    IF FirstPending(q, files) = 0 THEN <<>> ELSE <<q[FirstPending(q, files)]>>

(* the rows the scan has to heal before it returns *)
HealedFirst(q, files) ==
    {i \in 1..Len(q) : /\ Desync(q, files, i)
                       /\ FirstPending(q, files) \in {0} \cup (i + 1)..Len(q)}

(* the places of the returned row in the queue *)
ReturnedAt == {i \in 1..N : scanned.row = <<scanned.before[i]>>}

(* C15: strictly sequential processing, on a queue file of any length.  *)
(* When a row of the queue is handed to the extractor, every row before *)
(* it is scraped=True in the queue file.                                *)
C15_Sequential ==
    (scanned.invoked /\ ReturnedAt # {}) =>
        \E i \in ReturnedAt :
            \A j \in 1..(i - 1) : queueFile[j].is_scraped = "True"

(* C19: get_next_unscraped returns the first row, in list order, that is *)
(* marked False and has no record file, and None exactly when there is   *)
(* no such row.                                                          *)
C19_FirstUnscraped ==
    pc = "scanned" => scanned.row = PendingRow(scanned.before, scanned.files)

(* C20: heal and continue.  When the scan meets rows marked False whose *)
(* record file exists, the queue file afterwards has them all True and  *)
(* the same call still returns the first later row that is genuinely    *)
(* unscraped.                                                           *)
C20_HealAndContinue ==
    (pc = "scanned" /\ HealedFirst(scanned.before, scanned.files) # {}) =>
        /\ \A i \in HealedFirst(scanned.before, scanned.files) :
               queueFile[i].is_scraped = "True"
        /\ scanned.row # <<>> =>
               /\ FirstPending(scanned.before, scanned.files) # 0
               /\ scanned.row[1].url
                    = scanned.before[FirstPending(scanned.before,
                                                  scanned.files)].url
        /\ scanned.row = <<>> =>
               FirstPending(scanned.before, scanned.files) = 0

(* C16: atomic queue rewrite.  Once initialize_queue has written the    *)
(* queue, the queue file holds one row for each of the N source rows, in *)
(* the order of the list, at every point where the process can be       *)
(* killed: it is never empty or partial.                                *)
C16_AtomicRewrite ==
    lastInit.valid =>
        /\ Len(queueFile) = N
        /\ \A i \in 1..N : /\ queueFile[i].name = sourceList[i].name
                            /\ queueFile[i].url = sourceList[i].url

(* C18: url uniqueness.  In every state of the queue file, after         *)
(* initialize_queue and after every update_queue, no two rows carry the *)
(* same url.                                                            *)
C18_UrlUnique ==
    \A i, j \in 1..Len(queueFile) :
        queueFile[i].url = queueFile[j].url => i = j

(* the extractor has failed on every attempt of s *)
NoneUsable(s) == \A i \in 1..Len(s) : s[i] # "ok"

C22_VerifiedWrite ==
    [][(pc = "mark" /\ pc' = "delay") => KeyOf(queueFile, cur) \in store]_vars

(* the row is in the failed list of this run *)
InFailedList(i) ==
    \E k \in 1..Len(skipped) :
        SkippedRow(k) = [name |-> queueFile[i].name, url |-> queueFile[i].url]

(* C23: outcome is recoverable from record presence.  When run() has     *)
(* returned, a row that is scraped=True is in the failed list of the run *)
(* exactly when no record exists under its key.                          *)
C23_OutcomeFromRecord ==
    pc = "done" =>
        \A i \in 1..N :
            queueFile[i].is_scraped = "True" =>
                (InFailedList(i) <=> KeyOf(queueFile, i) \notin store)

(* the places run() can be at after a call of the extractor *)
AfterCall == {"attempt", "save", "exhausted", "crashed"}

(* a call with outcome o can take run() to place p with c calls made for *)
(* the row, leaving queue, store and counters as they are                *)
CallLeadsTo(o, p, c) ==
    ENABLED ( /\ Scrape(o)
              /\ pc' = p
              /\ callsOf'[cur] = c
              /\ Len(outs') = Len(outs) + 1
              /\ last_error' # "None" )

(* C24: a raised exception is a soft failure for retry purposes.  At     *)
(* every attempt, a call that raises and a call that returns None take   *)
(* run() to the same place with the same number of calls made, the same  *)
(* queue, store and counters; only the recorded reason differs.  A row   *)
(* is given up only after max_retries calls, raised or not.              *)
C24_RaiseAsSoftFailure ==
    /\ pc = "attempt" =>
           /\ \A p \in AfterCall, c \in 0..(maxRetries + 1) :
                  CallLeadsTo("raise", p, c) <=> CallLeadsTo("none", p, c)
           /\ \E p \in {"attempt", "exhausted"} :
                  CallLeadsTo("raise", p, callsOf[cur] + 1)
    /\ pc = "exhausted" =>
           /\ Len(outs) = maxRetries
           /\ callsOf[cur] = maxRetries
           /\ last_error \in {"exception", "No data returned from scraper"}

(* a row was given up after raising on every attempt *)
C24_Witness ==
    /\ pc = "delay"
    /\ maxRetries = 2
    /\ outs = <<"raise", "raise">>
    /\ callsOf[cur] = 2
    /\ failed = 1
    /\ skipped[1].reason = "exception"
    /\ queueFile[cur].is_scraped = "True"

(* C25: the record of the selected row appeared after get_next_unscraped *)
(* returned the row and before extraction started.  The safety check of  *)
(* run() then marks the row scraped=True in the queue file, counts it,   *)
(* and goes back to the top of the loop: the extractor is not called and *)
(* the Record Store is left as it is.                                    *)
C25_RecheckUnderRace ==
    [][ ( /\ pc = "recheck"
          /\ KeyOf(queueFile, cur) \in store
          /\ pc' \notin {"recheck", "start"} ) =>
            /\ pc' = "loop"
            /\ queueFile'[cur].is_scraped = "True"
            /\ Len(queueFile') = Len(queueFile)
            /\ callsOf' = callsOf
            /\ store' = store
            /\ processed' = processed + 1
            /\ failed' = failed /\ skipped' = skipped ]_vars

(* the record of row 1 was written by someone else while run() was     *)
(* between get_next_unscraped and the safety check; row 1 is now marked *)
C25_Witness ==
    /\ pc = "loop"
    /\ cur = 1
    /\ extWrites = 1
    /\ store = {KeyOf(queueFile, 1)}
    /\ queueFile[1].is_scraped = "True"
    /\ callsOf[1] = 0
    /\ processed = 1

(* every run of whitespace becomes one underscore: the first character *)
(* of a run is replaced, the others are dropped                        *)
CollapseWhitespace(s) ==
    LET first == SelectSeq([i \in 1..Len(s) |-> i],
                           LAMBDA i : ~(/\ s[i] \in SpaceChars
                                        /\ i > 1
                                        /\ s[i - 1] \in SpaceChars))
    IN  [k \in 1..Len(first) |->
            IF s[first[k]] \in SpaceChars THEN "_" ELSE s[first[k]]]

(* the key as described: the name reduced to word characters and hyphens, *)
(* whitespace runs collapsed to one underscore, truncated, plus ".json";  *)
(* the last segment of the url for an empty name                          *)
DescribedKey(scholarship_name, url) ==
    IF scholarship_name # <<>>
    THEN Truncate(CollapseWhitespace(Strip(Sanitize(scholarship_name)))) \o Ext
    ELSE UrlSlug(url)

(* C26: the key under which a record is saved is the described key: for  *)
(* a non-empty name the name reduced to word characters and hyphens with *)
(* every run of whitespace collapsed to one underscore, cut to 100       *)
(* characters, plus ".json"; for an empty name the last path segment of  *)
(* the url plus ".json".                                                 *)
C26_KeyDerivation ==
    pc = "done" =>
        store = {DescribedKey(sourceList[1].name, sourceList[1].url)}

(* C27: processed count means success.  When run() has returned, the    *)
(* processed count is the number of rows whose record the extractor     *)
(* returned and run() saved during this run, and the failed count is    *)
(* the length of the failed list.                                       *)
C27_ProcessedMeansSuccess ==
    pc = "done" =>
        /\ processed = Cardinality(succeeded)
        /\ failed = Len(skipped)

(* C27 as the code has it: processed is incremented by one on exactly  *)
(* two steps: the end of the success branch, for a row whose record the *)
(* extractor returned and run() wrote and marked, and the safety check  *)
(* finding the record of the selected row present (the row is counted   *)
(* without a call of the extractor).  No row is counted twice: at the   *)
(* end processed is at most the number of rows the extractor returned a *)
(* record for plus the records that appeared from outside.  failed is   *)
(* the length of the failed list throughout.                            *)
C27_ProcessedCountsRecords ==
    /\ [](failed = Len(skipped))
    /\ [](pc = "done" => processed <= Cardinality(succeeded) + extWrites)
    /\ [][
            /\ processed' # processed =>
                  \/ /\ pc = "mark" /\ pc' = "delay"
                     /\ cur \in succeeded
                     /\ processed' = processed + 1
                  \/ /\ pc = "recheck" /\ pc' = "loop"
                     /\ cur \notin succeeded
                     /\ KeyOf(queueFile, cur) \in store
                     /\ callsOf' = callsOf
                     /\ processed' = processed + 1
                  \/ pc' = "start" /\ processed' = 0
            /\ (pc = "mark" /\ pc' = "delay") => processed' = processed + 1
            /\ (pc = "recheck" /\ pc' = "loop") => processed' = processed + 1
          ]_vars

(* run() has returned after two rows: the record of the first appeared *)
(* before the safety check, the second was extracted and saved         *)
C27_Witness ==
    /\ pc = "done"
    /\ N = 2
    /\ processed = 2
    /\ failed = 0
    /\ succeeded = {2}
    /\ callsOf[1] = 0
    /\ extWrites = 1

(* rows that were scraped=False in the queue file initialize_queue wrote *)
PendingAfterInit ==
    {i \in 1..Len(lastInit.queue) : lastInit.queue[i].is_scraped = "False"}

UniqueUrls(q) == \A i, j \in 1..Len(q) : q[i].url = q[j].url => i = j

(* C28: every pending entry is accounted for.  For a queue with unique  *)
(* urls and a Record Store nobody else writes to, when run() has        *)
(* returned processed + failed is the number of rows that were          *)
(* scraped=False after initialization, and each of these rows was       *)
(* handed to the extractor at least once.                               *)
C28_PendingAccounted ==
    (pc = "done" /\ UniqueUrls(queueFile) /\ extWrites = 0) =>
        /\ processed + failed = Cardinality(PendingAfterInit)
        /\ \A i \in PendingAfterInit : callsOf[i] >= 1

(* C29: frame of update_queue.  After update_queue(url, True) the queue *)
(* file has the same rows in the same order with the same names and     *)
(* urls; the rows whose url is the argument are scraped=True and every  *)
(* other row has the flag it had; the Record Store is as it was; and    *)
(* when no row with that url was scraped=False the file is the file     *)
(* that was there before the call.                                      *)
C29_UpdateQueueFrame ==
    pc = "updated" =>
        LET before == scanned.before
        IN  /\ Len(queueFile) = Len(before)
            /\ \A i \in 1..Len(before) :
                   /\ queueFile[i].name = before[i].name
                   /\ queueFile[i].url = before[i].url
                   /\ before[i].url = ArgUrl => queueFile[i].is_scraped = "True"
                   /\ before[i].url # ArgUrl =>
                          queueFile[i].is_scraped = before[i].is_scraped
            /\ store = scanned.files
            /\ (\A i \in 1..Len(before) :
                    before[i].url = ArgUrl => before[i].is_scraped = "True")
                  => queueFile = before

(* the call marked the first row, which was scraped=False, and left the *)
(* second row, which carries another url, unscraped                      *)
C29_Witness ==
    /\ pc = "updated"
    /\ Len(queueFile) = 2
    /\ cur = 1
    /\ scanned.before[1].is_scraped = "False"
    /\ queueFile[1].is_scraped = "True"
    /\ queueFile[2].url # queueFile[1].url
    /\ queueFile[2].is_scraped = "False"
    /\ store # {}

(* C30: the scroll loop is bounded by max_scrolls: whatever the page   *)
(* does, at most max_scrolls (100) scroll iterations are performed.    *)
C30_ScrollBound == scrolls <= MaxScrolls

====
